---- MODULE Spec2Model ----
(***************************************************************************)
(* Area reconciliation and sliver consolidation of the ALKIS toolbox.      *)
(*                                                                         *)
(* A behaviour of Spec is one of (variable run):                           *)
(*   "nutzung"     a run of the land-use pipeline,                         *)
(*                 SFLCalculatorNutzung.vectorized_calculate_sfl_nutzung   *)
(*   "boden"       a run of the soil pipeline,                             *)
(*                 SFLCalculatorBodenschaetzung.vectorized_calculate_sfl_boden *)
(*   "merge_mini"  a call of merge_mini_geometries on a scaled table       *)
(*   "process_merging" a call of process_merging on a main table and a     *)
(*                 table of merge candidates                               *)
(*   "delta_boden" a call of _apply_delta_correction_boden on a table      *)
(*                                                                         *)
(* Areas are multiples of 1/AreaUnit m^2 with AreaUnit a power of two, so  *)
(* every area is a double without rounding; lengths are metres, distances  *)
(* are centimetres.  A geometry is the set of slots it covers on a line of *)
(* NumFrags slots; slot i is the polygon of input row i.                   *)
(***************************************************************************)
EXTENDS Integers, Sequences, FiniteSets, TLC

(***************************************************************************)
(* Bounds of the model and tool parameters of a run                        *)
(***************************************************************************)
NumFrags == 3
NumParcels == 2
AreaExp == 1

(* resolution of the areas: 2^AreaExp units per m^2 *)
AreaUnit == 2 ^ AreaExp

max_shred_qm == 5
merge_area == 2
flaechenformindex == 10

(* tolerance = 0.1 m and buffer(0.5) of _merge_mini_into_main_nutzung, in cm *)
tolerance == 10
buffer_dist == 50
OverlapId == 1000

(* delete_area is not None: the value used, in m^2; None itself *)
DeleteAreaQm == 1
None == 0 - 1

FSKs == 1..NumParcels
Slots == 1..NumFrags

(* shapes of input polygons: area in 1/AreaUnit m^2, perimeter in m *)
FragKinds ==
    { [area |-> 1,  len |-> 3],
      [area |-> 5,  len |-> 6],
      [area |-> 5,  len |-> 20],
      [area |-> 13, len |-> 11],
      [area |-> 27, len |-> 15] }

(* parcels of the parcel layer: registered area in m^2, geometry area in units *)
ParcelKinds ==
    { [afl |-> 20, area |-> 40],
      [afl |-> 15, area |-> 27],
      [afl |-> 15, area |-> 26],
      [afl |-> 4,  area |-> 8] }

(* parcels of the tables handed to process_merging *)
MergingParcelKinds ==
    { [afl |-> 20, area |-> 40],
      [afl |-> 31, area |-> 58] }

(* distance classes between neighbouring polygons, in cm *)
GapKinds == {0, 5, 30, 100}
FarApart == 100

(* yield numbers (ackerzahl) and split areas of the drawn soil tables *)
AzValues == {0, 50, 75}
SflValues == {3, 7, 8, 14}

VARIABLES
    run,            \* entry point of the behaviour
    calc_type,      \* parameter calc_type of merge_mini_geometries
    delete_area,    \* parameter delete_area (None or 1/AreaUnit m^2)
    fc_flst,        \* parcel layer: FSK -> [afl, area]
    fc_rows,        \* overlay feature class: input rows in cursor order
    gap,            \* gap[i]: distance between slot i and slot i+1
    shapely,        \* SHAPELY_AVAILABLE
    pc,             \* position of the run
    df_main,        \* DataFrame df_main (sequence of rows)
    df_mini,        \* DataFrame df_mini handed to the write step
    df_mini_merge,  \* DataFrame of merge candidates
    df_mini_not_merged, \* third result of merge_mini_geometries
    df_before,      \* the table on entry to the delta correction
    errors,         \* arcpy.AddError records
    mini_pos,       \* number of merge candidates already iterated
    merged_oids,    \* set merged_oids of the merge loop
    groups,         \* groupby("fsk", sort=False): remaining group keys
    warnings,       \* arcpy.AddWarning records
    gdb_sfl,        \* rows written back: objectid -> row
    gdb_deleted,    \* objectids deleted from the feature class
    raised          \* geometry calls that raised in the last merge iteration

vars == << run, calc_type, delete_area, fc_flst, fc_rows, gap, shapely, pc,
           df_main, df_mini, df_mini_merge, df_mini_not_merged, df_before,
           errors, mini_pos, merged_oids, groups, warnings, gdb_sfl,
           gdb_deleted, raised >>

(***************************************************************************)
(* Small helpers                                                           *)
(***************************************************************************)
Abs(x) == IF x < 0 THEN 0 - x ELSE x

Min2(a, b) == IF a < b THEN a ELSE b

RECURSIVE SumSeq(_)
SumSeq(s) == IF s = << >> THEN 0 ELSE Head(s) + SumSeq(Tail(s))

RECURSIVE SumSet(_, _)
SumSet(S, f) ==
    IF S = {} THEN 0
    ELSE LET x == CHOOSE y \in S : TRUE IN f[x] + SumSet(S \ {x}, f)

Range(s) == { s[i] : i \in 1..Len(s) }

(* positions of s satisfying keep, ascending, as a sequence *)
RECURSIVE IdxSeq(_, _)
IdxSeq(n, keep) ==
    IF n = 0 THEN << >>
    ELSE IF n \in keep THEN Append(IdxSeq(n - 1, keep), n)
         ELSE IdxSeq(n - 1, keep)

(* DataFrame row selection df[mask]: rows at the positions in keep, in order *)
SelectRows(df, keep) ==
    LET ix == IdxSeq(Len(df), keep) IN [i \in 1..Len(ix) |-> df[ix[i]]]

Oids(df) == { df[i].objectid : i \in 1..Len(df) }

(***************************************************************************)
(* GeometryProvider                                                        *)
(***************************************************************************)
slot_area == [s \in Slots |-> fc_rows[s].geom_area]

(* geometry.area *)
GeomArea(g) == SumSet(g, slot_area)

SlotDist(a, b) ==
    IF a = b THEN 0
    ELSE IF a = b + 1 THEN gap[b]
    ELSE IF b = a + 1 THEN gap[a]
    ELSE FarApart

RECURSIVE MinOf(_)
MinOf(S) ==
    LET x == CHOOSE y \in S : TRUE
    IN IF S = {x} THEN x ELSE Min2(x, MinOf(S \ {x}))

(* geometry.distance *)
GeomDistance(g, h) == MinOf({ SlotDist(a, b) : a \in g, b \in h })

(* main_geom.touches(mini_geom) or main_geom.intersects(mini_geom) *)
TouchesOrIntersects(g, h) == GeomDistance(g, h) = 0

(* mini_geom.buffer(0.5).intersects(main_geom) *)
BufferIntersects(g, h) == GeomDistance(g, h) <= buffer_dist

(* main_geom.union(mini_geom) *)
GeomUnion(g, h) == g \cup h

(***************************************************************************)
(* AreaScaler                                                              *)
(***************************************************************************)
(* binary exponent of the positive rational num / den: the largest e with  *)
(* 2^e <= num / den                                                        *)
RECURSIVE Binade(_, _)
Binade(num, den) ==
    IF num >= 2 * den THEN Binade(num, 2 * den) + 1
    ELSE IF num < den THEN Binade(2 * num, den) - 1
    ELSE 0

(* 2^s mod m *)
RECURSIVE TwoPowMod(_, _)
TwoPowMod(s, m) == IF s = 0 THEN 1 % m ELSE (2 * TwoPowMod(s - 1, m)) % m

(* num / den is a power of two *)
IsPowerOfTwo(num, den) ==
    LET e == Binade(num, den)
    IN IF e >= 0 THEN num = den * 2 ^ e ELSE num * 2 ^ (0 - e) = den

(* The double product (a / u) * (num / den), u a power of two, compared    *)
(* with the exact value t = a * num / (u * den), where t is a double: the  *)
(* quotient num / den is rounded to 53 bits first (down when the remainder *)
(* r of num * 2^s by den is below den / 2, up otherwise), the product of   *)
(* a / u with that double is rounded again and is t unless the error of    *)
(* the quotient, times a / u, exceeds half the spacing of the doubles at   *)
(* t.  Result: -1 the product is the double below t, 0 it is t, 1 the      *)
(* double above t.                                                         *)
FloatProductCmp(a, u, num, den) ==
    IF a = 0 \/ num = 0 THEN 0
    ELSE LET e_q == Binade(num, den)
             r == (num * TwoPowMod(52 - e_q, den)) % den
             down == 2 * r < den
             f == IF down THEN r ELSE den - r
             e_t == Binade(a * num, u * den)
             d == e_t - e_q - 1
                    - (IF down /\ IsPowerOfTwo(a * num, u * den) THEN 1 ELSE 0)
             lhs == a * f * (IF d < 0 THEN 2 ^ (0 - d) ELSE 1)
             rhs == u * den * (IF d > 0 THEN 2 ^ d ELSE 1)
         IN IF r = 0 \/ lhs <= rhs THEN 0
            ELSE IF down THEN 0 - 1 ELSE 1

(* int(x + 0.5) for the non-negative rational x = num / den *)
RoundHalfUp(num, den) == (2 * num + den) \div (2 * den)

(* int(geom_area * verbesserung + 0.5) in doubles, with verbesserung =      *)
(* float(afl) / parcel area.  The result is the exact value rounded half   *)
(* up unless that value is k + 1/2 with k >= 1 and the product came out as *)
(* the double below it: then product + 0.5 is below k + 1 and int gives k. *)
ScaledSfl(geom_area, verb) ==
    LET num == geom_area * verb.afl
        k == num \div verb.area
    IN IF (2 * num) % (2 * verb.area) # verb.area
       THEN RoundHalfUp(num, verb.area)
       ELSE IF k >= 1 /\ FloatProductCmp(geom_area, AreaUnit,
                                         verb.afl * AreaUnit, verb.area) < 0
            THEN k
            ELSE k + 1

(* df.sort_values(["fsk", "geom_area"]): stable lexicographic sort *)
SortValues(df) ==
    LET n == Len(df)
        Before(a, b) ==
            \/ df[a].fsk < df[b].fsk
            \/ /\ df[a].fsk = df[b].fsk
               /\ \/ df[a].geom_area < df[b].geom_area
                  \/ df[a].geom_area = df[b].geom_area /\ a < b
        rank(p) == Cardinality({ q \in 1..n : Before(q, p) }) + 1
    IN [r \in 1..n |-> df[CHOOSE p \in 1..n : rank(p) = r]]

(* load_flurstuecke_to_dataframe keeps the parcels with geom_area > 0 *)
Loaded(fsk) == fc_flst[fsk].area > 0

(* the missing value of a left join: NaN in amtliche_flaeche and verbesserung *)
NaNVerb == [afl |-> 0, area |-> 0]

(* df_nutzung.merge(df_flurstuecke[...], on="fsk", how="left") *)
JoinFlst(rows) ==
    [i \in 1..Len(rows) |->
        IF Loaded(rows[i].fsk)
        THEN [rows[i] EXCEPT !.amtliche_flaeche = fc_flst[rows[i].fsk].afl,
                             !.verbesserung = fc_flst[rows[i].fsk]]
        ELSE [rows[i] EXCEPT !.amtliche_flaeche = None,
                             !.verbesserung = NaNVerb]]

(* a row whose factor is NaN: (raw_sfl + 0.5).astype(int) raises *)
HasNaN(df) == \E i \in 1..Len(df) : df[i].verbesserung = NaNVerb

(***************************************************************************)
(* YieldCalculator                                                         *)
(***************************************************************************)
(* int(round(x)) and Series.round() for the non-negative x = num / den:    *)
(* halves go to the even neighbour                                         *)
RoundHalfEven(num, den) ==
    LET q == num \div den
        r == num % den
    IN IF 2 * r < den THEN q
       ELSE IF 2 * r > den THEN q + 1
       ELSE IF q % 2 = 0 THEN q ELSE q + 1

(* int(round(sfl / 100 * ackerzahl)) in doubles: the exact value rounded   *)
(* to the nearest integer; when it is k + 1/2 the double product is        *)
(* rounded, which is the double below it (k), above it (k + 1) or the half *)
(* itself (the even one of k and k + 1); a negative sfl mirrors the        *)
(* product of its absolute value                                           *)
Emz(sfl, ackerzahl) ==
    LET x == sfl * ackerzahl
        k == x \div 100
        m == FloatProductCmp(ackerzahl, 1, Abs(sfl), 100)
        c == IF sfl < 0 THEN 0 - m ELSE m
    IN IF (2 * x) % 200 # 100 THEN RoundHalfEven(x, 100)
       ELSE IF c < 0 THEN k
       ELSE IF c > 0 THEN k + 1
       ELSE RoundHalfEven(x, 100)

(* df.groupby("fsk", sort=False): keys in order of first appearance *)
RECURSIVE GroupKeys(_)
GroupKeys(df) ==
    IF df = << >> THEN << >>
    ELSE LET n == Len(df)
             front == GroupKeys(SubSeq(df, 1, n - 1))
         IN IF df[n].fsk \in Range(front) THEN front ELSE Append(front, df[n].fsk)

(***************************************************************************)
(* Inputs                                                                  *)
(***************************************************************************)
NoVerb == [afl |-> 0, area |-> 1]

InputRow(i, fsk, kind, wn, az) ==
    [objectid |-> i, fsk |-> fsk, geometry |-> {i},
     geom_area |-> kind.area, geom_length |-> kind.len,
     weitere_nutzung_id |-> wn, amtliche_flaeche |-> 0,
     verbesserung |-> NoVerb, sfl |-> 0, is_overlap |-> FALSE,
     ackerzahl |-> az, emz |-> 0, schaetz_afl |-> 0]

(* the fragments 1..split lie in parcel 1, the others in the last parcel *)
FskOf(i, split) == IF i <= split THEN 1 ELSE NumParcels

(* only the first two polygons may be apart; all others touch *)
GapInputs == { [i \in 1..(NumFrags - 1) |-> IF i = 1 THEN g ELSE 0] : g \in GapKinds }

AllTouch == [i \in 1..(NumFrags - 1) |-> 0]

SameParcels == { [f \in FSKs |-> pk] : pk \in ParcelKinds }

MergingParcels == { [f \in FSKs |-> pk] : pk \in MergingParcelKinds }

(* the parcel layer in which the first parcel has a geometry area of zero *)
BadParcels ==
    { [f \in FSKs |-> IF f = 1 THEN [afl |-> 20, area |-> 0]
                                ELSE [afl |-> 20, area |-> 40]] }

NoRun ==
    /\ df_main = << >>
    /\ df_mini = << >>
    /\ df_mini_merge = << >>
    /\ df_mini_not_merged = << >>
    /\ df_before = << >>
    /\ errors = {}
    /\ mini_pos = 0
    /\ merged_oids = {}
    /\ groups = << >>
    /\ warnings = {}
    /\ gdb_sfl = << >>
    /\ gdb_deleted = {}
    /\ raised = {}

(* feature classes read by the land-use pipeline *)
InitNutzung ==
    /\ run = "nutzung"
    /\ calc_type = "nutzung"
    /\ delete_area = None
    /\ fc_flst \in SameParcels \cup BadParcels
    /\ \E split \in 1..NumFrags, ovl \in BOOLEAN, kinds \in [Slots -> FragKinds] :
          fc_rows = [i \in Slots |->
                        InputRow(i, FskOf(i, split), kinds[i],
                                 IF ovl /\ i = NumFrags THEN OverlapId ELSE 0, 0)]
    /\ shapely \in BOOLEAN
    \* without shapely no geometry is consulted: one layout stands for all
    /\ gap \in (IF shapely THEN GapInputs ELSE {AllTouch})
    /\ pc = "start"
    /\ NoRun

(* feature classes read by the soil pipeline; every polygon touches its *)
(* neighbours and all rows carry one yield number                        *)
InitBoden ==
    /\ run = "boden"
    /\ calc_type = "bodenschaetzung"
    /\ delete_area = None
    /\ fc_flst \in SameParcels \cup BadParcels
    /\ \E split \in 1..NumFrags, az \in AzValues, kinds \in [Slots -> FragKinds] :
          fc_rows = [i \in Slots |-> InputRow(i, FskOf(i, split), kinds[i], 0, az)]
    /\ gap = AllTouch
    /\ shapely = TRUE
    /\ pc = "b_start"
    /\ NoRun

(* the first n rows of df with sfl and emz as the scaling computes them *)
RECURSIVE ScaledRows(_, _)
ScaledRows(df, n) ==
    IF n = 0 THEN << >>
    ELSE LET r == df[n]
             sfl == ScaledSfl(r.geom_area, r.verbesserung)
         IN Append(ScaledRows(df, n - 1),
                   [r EXCEPT !.sfl = sfl, !.emz = Emz(sfl, r.ackerzahl)])

(* the table df handed to merge_mini_geometries: the rows of the feature   *)
(* class joined with their parcel, sorted and scaled                       *)
MiniGeoInput(rows) == ScaledRows(SortValues(JoinFlst(rows)), Len(rows))

(* the same table without a column geom_length *)
WithoutLength(df) == [i \in 1..Len(df) |-> [df[i] EXCEPT !.geom_length = None]]

(* mask_mini, line 41 *)
MiniIdx(df) == { i \in 1..Len(df) : df[i].sfl <= max_shred_qm }

(* mask_delete, lines 59-63 *)
IsDeleteOutright(r) ==
    /\ r.geom_area < delete_area
    /\ r.sfl <= merge_area
    /\ r.amtliche_flaeche > merge_area

(* rows of df_mini_to_delete, lines 56-65 *)
DeleteIdx(df) ==
    IF delete_area # None
    THEN { i \in MiniIdx(df) : IsDeleteOutright(df[i]) }
    ELSE {}

(* perimeter / sqrt(geom_area) < limit, for positive areas *)
FormIndexBelow(len, area, limit) == len * len * AreaUnit < limit * limit * area

(* mask_keep | (~mask_keep & mask_real_feature), lines 74-83 *)
IsKeepShared(r) ==
    \/ r.amtliche_flaeche <= max_shred_qm
    \/ /\ FormIndexBelow(r.geom_length, r.geom_area, flaechenformindex)
       /\ r.sfl >= merge_area

(* rows of df_mini_keep, line 83 *)
KeepIdx(df) == { i \in MiniIdx(df) \ DeleteIdx(df) : IsKeepShared(df[i]) }

(* df_main after line 95: the rows that are not mini, then the kept ones *)
MainAndKept(df) ==
    SelectRows(df, (1..Len(df)) \ MiniIdx(df)) \o SelectRows(df, KeepIdx(df))

(* df_mini_merge, line 85 *)
MergeCandidates(df) ==
    SelectRows(df, (MiniIdx(df) \ DeleteIdx(df)) \ KeepIdx(df))

(* a call merge_mini_geometries(df, workspace, max_shred_qm, merge_area,  *)
(* flaechenformindex, delete_area, calc_type); df_main holds the argument *)
(* df, fc_rows the feature class of the workspace                         *)
InitMergeMini ==
    /\ run = "merge_mini"
    /\ calc_type \in {"nutzung", "bodenschaetzung"}
    /\ fc_flst \in SameParcels
    /\ \E split \in 1..NumFrags, kinds \in [Slots -> FragKinds],
          az \in (IF calc_type = "nutzung" THEN {0} ELSE {50}) :
          fc_rows = [i \in Slots |-> InputRow(i, FskOf(i, split), kinds[i], 0, az)]
    /\ \E df \in {MiniGeoInput(fc_rows)} : df_main \in {df, WithoutLength(df)}
    /\ delete_area \in {None, DeleteAreaQm * AreaUnit}
    /\ gap = AllTouch
    /\ shapely = TRUE
    /\ pc = "m_start"
    /\ df_mini = << >>
    /\ df_mini_merge = << >>
    /\ df_mini_not_merged = << >>
    /\ df_before = << >>
    /\ errors = {}
    /\ mini_pos = 0
    /\ merged_oids = {}
    /\ groups = << >>
    /\ warnings = {}
    /\ gdb_sfl = << >>
    /\ gdb_deleted = {}
    /\ raised = {}

(* a call process_merging(df_main, df_mini, calc_type): df_main holds the *)
(* main and the kept rows, df_mini_merge the merge candidates of a scaled *)
(* table, all with their geometry; there is at least one candidate        *)
InitProcessMerging ==
    /\ run = "process_merging"
    /\ calc_type \in {"nutzung", "bodenschaetzung"}
    /\ delete_area = None
    /\ fc_flst \in MergingParcels
    /\ \E split \in 1..NumFrags, kinds \in [Slots -> FragKinds],
          az \in (IF calc_type = "nutzung" THEN {0} ELSE {50}) :
          fc_rows = [i \in Slots |-> InputRow(i, FskOf(i, split), kinds[i], 0, az)]
    /\ \E df \in {MiniGeoInput(fc_rows)} :
          /\ df_main = MainAndKept(df)
          /\ df_mini_merge = MergeCandidates(df)
    /\ Len(df_mini_merge) > 0
    /\ gap \in GapInputs
    /\ shapely = TRUE
    /\ pc = "m_merging"
    /\ df_mini = << >>
    /\ df_mini_not_merged = << >>
    /\ df_before = << >>
    /\ errors = {}
    /\ mini_pos = 0
    /\ merged_oids = {}
    /\ groups = << >>
    /\ warnings = {}
    /\ gdb_sfl = << >>
    /\ gdb_deleted = {}
    /\ raised = {}

(* a call _apply_delta_correction_boden(df) on a table of soil rows; the  *)
(* target area of a parcel is its sfl sum plus a deviation up to the      *)
(* threshold                                                              *)
DeltaRow(i, fsk, sfl, az, target) ==
    [objectid |-> i, fsk |-> fsk, geometry |-> {i},
     geom_area |-> sfl * AreaUnit, geom_length |-> 0,
     weitere_nutzung_id |-> 0, amtliche_flaeche |-> target,
     verbesserung |-> NoVerb, sfl |-> sfl, is_overlap |-> FALSE,
     ackerzahl |-> az, emz |-> Emz(sfl, az), schaetz_afl |-> target]

InitDeltaBoden ==
    /\ run = "delta_boden"
    /\ calc_type = "bodenschaetzung"
    /\ delete_area = None
    \* the parcel layer is not read by the delta correction
    /\ fc_flst = [f \in FSKs |-> [afl |-> 20, area |-> 40]]
    /\ fc_rows = << >>
    /\ gap = AllTouch
    /\ shapely = TRUE
    /\ pc = "d_reconcile"
    /\ \E split \in 1..NumFrags, az \in AzValues, sfls \in [Slots -> SflValues],
          dev \in (0 - max_shred_qm)..max_shred_qm :
          LET fsk(i) == FskOf(i, split)
              sum(f) == SumSet({ i \in Slots : fsk(i) = f }, sfls)
          IN df_main = [i \in Slots |->
                           DeltaRow(i, fsk(i), sfls[i], az, sum(fsk(i)) + dev)]
    /\ df_before = df_main
    /\ groups = GroupKeys(df_main)
    /\ df_mini = << >>
    /\ df_mini_merge = << >>
    /\ df_mini_not_merged = << >>
    /\ errors = {}
    /\ mini_pos = 0
    /\ merged_oids = {}
    /\ warnings = {}
    /\ gdb_sfl = << >>
    /\ gdb_deleted = {}
    /\ raised = {}

Init ==
    \/ InitNutzung
    \/ InitBoden
    \/ InitMergeMini
    \/ InitProcessMerging
    \/ InitDeltaBoden

inputs == << run, calc_type, delete_area, fc_flst, fc_rows, gap, shapely >>

(***************************************************************************)
(* vectorized_calculate_sfl_nutzung, lines 124-140: load, join, sort, scale *)
(***************************************************************************)
ScaleRows(df) ==
    [i \in 1..Len(df) |->
        [df[i] EXCEPT !.sfl = ScaledSfl(df[i].geom_area, df[i].verbesserung)]]

Scale ==
    /\ pc = "start"
    /\ IF HasNaN(JoinFlst(fc_rows))
       THEN /\ errors' = errors \cup {"vectorized_calculate_sfl_nutzung"}
            /\ pc' = "error"
            /\ UNCHANGED df_main
       ELSE /\ df_main' = ScaleRows(SortValues(JoinFlst(fc_rows)))
            /\ pc' = "scaled"
            /\ UNCHANGED errors
    /\ UNCHANGED << inputs, df_mini_not_merged, df_before, df_mini, df_mini_merge, mini_pos, merged_oids,
                    groups, warnings, gdb_sfl, gdb_deleted >>
    /\ UNCHANGED raised

(***************************************************************************)
(* SliverClassifier of the land-use pipeline, lines 142-181                *)
(***************************************************************************)
(* mask_mini, line 143 *)
IsMiniNutzung(r) == r.sfl <= max_shred_qm /\ r.amtliche_flaeche > max_shred_qm

(* mask_keep & mask_real_feature, lines 157-163 *)
IsKeepNutzung(r) ==
    /\ r.sfl >= merge_area
    /\ FormIndexBelow(r.geom_length, r.geom_area, flaechenformindex)

Classify ==
    /\ pc = "scaled"
    /\ LET df == df_main
           n == Len(df)
           mini == { i \in 1..n : IsMiniNutzung(df[i]) }
           keep == { i \in mini : IsKeepNutzung(df[i]) }
           d_main == SelectRows(df, (1..n) \ mini)
           d_keep == SelectRows(df, keep)
           d_merge == SelectRows(df, mini \ keep)
       IN IF mini = {}
          THEN /\ df_main' = d_main
               /\ df_mini' = << >>
               /\ df_mini_merge' = << >>
               /\ pc' = "merged"
          ELSE /\ df_main' = d_main \o d_keep
               /\ df_mini_merge' = d_merge
               /\ IF Len(d_merge) > 0 /\ shapely
                  THEN df_mini' = SelectRows(df, mini) /\ pc' = "merging"
                  ELSE df_mini' = << >> /\ pc' = "merged"
    /\ mini_pos' = 0
    /\ merged_oids' = {}
    /\ UNCHANGED << inputs, df_mini_not_merged, errors, df_before, groups, warnings, gdb_sfl, gdb_deleted >>
    /\ UNCHANGED raised

(***************************************************************************)
(* SliverMerger of the land-use pipeline: _merge_mini_into_main_nutzung    *)
(***************************************************************************)
(* variant: the rows of every parcel are merge targets *)
FskMainIdx_all(df, fsk) == 1..Len(df)

(* positions of the main rows of one parcel, line 230 *)
FskMainIdx(df, fsk) == { i \in 1..Len(df) : df[i].fsk = fsk }

(* variant: the last row that touches or intersects is taken *)
Strategy1_last(df, idx, g) ==
    LET hit == { i \in idx : TouchesOrIntersects(df[i].geometry, g) }
    IN IF hit = {} THEN 0 ELSE CHOOSE i \in hit : \A j \in hit : j <= i

(* Strategie 1, lines 238-245: first row that touches or intersects; 0 = None *)
Strategy1(df, idx, g) ==
    LET hit == { i \in idx : TouchesOrIntersects(df[i].geometry, g) }
    IN IF hit = {} THEN 0 ELSE MinOf(hit)

(* Strategie 2, lines 248-258: first row of minimum distance below tolerance *)
Strategy2(df, idx, g) ==
    LET near == { i \in idx : GeomDistance(df[i].geometry, g) < tolerance }
        best == { i \in near : \A j \in near :
                     GeomDistance(df[i].geometry, g) <= GeomDistance(df[j].geometry, g) }
    IN IF near = {} THEN 0 ELSE MinOf(best)

(* Strategie 3, lines 261-275: largest row intersecting the buffered mini *)
Strategy3(df, idx, g) ==
    LET hit == { i \in idx : BufferIntersects(g, df[i].geometry)
                             /\ GeomArea(df[i].geometry) > 0 }
        best == { i \in hit : \A j \in hit :
                     GeomArea(df[i].geometry) >= GeomArea(df[j].geometry) }
    IN IF hit = {} THEN 0 ELSE MinOf(best)

(* the families of geometry calls that raise in one iteration; a call of a *)
(* strategy raises for the pairing of the mini fragment with the first     *)
(* main row of its parcel                                                  *)
GeomFailKinds ==
    { {}, {"touches"}, {"touches", "distance", "intersects"},
      {"touches", "buffer"}, {"union"} }

SharedFailKinds == { {}, {"touches"}, {"union"} }

(* variant: a raising call ends the loop over the main rows *)
Attempted_abort(idx, call, F) ==
    IF call \in F THEN {} ELSE idx

(* the pairings of a strategy whose call returns: "except: pass" inside    *)
(* the loop over fsk_main_idx skips the raising pairing only               *)
Attempted(idx, call, F) ==
    IF call \in F /\ idx # {} THEN idx \ {MinOf(idx)} ELSE idx

(* best_match_idx after the three strategies, lines 235-275; 0 = None *)
BestMatchNutzung(df, mini, F) ==
    LET idx == FskMainIdx(df, mini.fsk)
        s1 == Strategy1(df, Attempted(idx, "touches", F), mini.geometry)
        s2 == Strategy2(df, Attempted(idx, "distance", F), mini.geometry)
        s3 == IF "buffer" \in F THEN 0
              ELSE Strategy3(df, Attempted(idx, "intersects", F), mini.geometry)
    IN IF idx = {} THEN 0
       ELSE IF s1 # 0 THEN s1
       ELSE IF s2 # 0 THEN s2
       ELSE s3

(* "Merge durchfuehren", lines 278-292 *)
MergeInto(df, b, mini) ==
    LET union_geom == GeomUnion(df[b].geometry, mini.geometry)
        union_area == GeomArea(union_geom)
    IN [df EXCEPT ![b].geometry = union_geom,
                  ![b].geom_area = union_area,
                  ![b].sfl = ScaledSfl(union_area, df[b].verbesserung)]

(* variant: the failure is raised after geometry and geom_area are written *)
MergeStep_partial ==
    /\ pc = "merging"
    /\ mini_pos < Len(df_mini_merge)
    /\ \E F \in GeomFailKinds :
          LET mini == df_mini_merge[mini_pos + 1]
              b == BestMatchNutzung(df_main, mini, F)
              union_geom == GeomUnion(df_main[b].geometry, mini.geometry)
          IN /\ raised' = F
             /\ IF b = 0
                THEN UNCHANGED << df_main, merged_oids, warnings >>
                ELSE IF "union" \in F
                THEN /\ warnings' = warnings \cup
                          {[kind |-> "merge_failed", objectid |-> mini.objectid]}
                     /\ df_main' = [df_main EXCEPT
                                       ![b].geometry = union_geom,
                                       ![b].geom_area = GeomArea(union_geom)]
                     /\ UNCHANGED merged_oids
                ELSE /\ df_main' = MergeInto(df_main, b, mini)
                     /\ merged_oids' = merged_oids \cup {mini.objectid}
                     /\ UNCHANGED warnings
    /\ mini_pos' = mini_pos + 1
    /\ UNCHANGED << inputs, df_mini_not_merged, errors, df_before, pc, df_mini, df_mini_merge, groups,
                    gdb_sfl, gdb_deleted >>

(* one iteration of the loop over df_mini, lines 215-294 *)
MergeStep ==
    /\ pc = "merging"
    /\ mini_pos < Len(df_mini_merge)
    /\ \E F \in GeomFailKinds :
          LET mini == df_mini_merge[mini_pos + 1]
              b == BestMatchNutzung(df_main, mini, F)
          IN /\ raised' = F
             /\ IF b = 0
                THEN UNCHANGED << df_main, merged_oids, warnings >>
                ELSE IF "union" \in F
                THEN /\ warnings' = warnings \cup
                          {[kind |-> "merge_failed", objectid |-> mini.objectid]}
                     /\ UNCHANGED << df_main, merged_oids >>
                ELSE /\ df_main' = MergeInto(df_main, b, mini)
                     /\ merged_oids' = merged_oids \cup {mini.objectid}
                     /\ UNCHANGED warnings
    /\ mini_pos' = mini_pos + 1
    /\ UNCHANGED << inputs, df_mini_not_merged, errors, df_before, pc, df_mini, df_mini_merge, groups,
                    gdb_sfl, gdb_deleted >>

(* end of the merge, lines 296-315, and lines 178-179 of the caller *)
MergeReturn ==
    /\ pc = "merging"
    /\ mini_pos = Len(df_mini_merge)
    /\ LET n == Len(df_mini_merge)
           in_merged == { i \in 1..n : df_mini_merge[i].objectid \in merged_oids }
           deleted == SelectRows(df_mini_merge, in_merged)
           not_merged == SelectRows(df_mini_merge, (1..n) \ in_merged)
       IN /\ df_mini' = deleted \o not_merged
          \* lines 301-309: one warning with the count, then one per row
          /\ warnings' = IF Len(not_merged) > 0
                         THEN warnings
                                \cup {[kind |-> "not_merged_summary",
                                       count |-> Len(not_merged)]}
                                \cup { [kind |-> "not_merged", fsk |-> r.fsk,
                                        objectid |-> r.objectid]
                                         : r \in Range(not_merged) }
                         ELSE warnings
    /\ pc' = "merged"
    /\ UNCHANGED << inputs, df_mini_not_merged, errors, df_before, df_main, df_mini_merge, mini_pos, merged_oids,
                    groups, gdb_sfl, gdb_deleted >>
    /\ raised' = {}

(***************************************************************************)
(* Overlap handling, lines 183-186                                         *)
(***************************************************************************)
(* variant: the overlap rows keep their scaled, half-up rounded sfl *)
MarkOverlapRows_scaled(df) ==
    [i \in 1..Len(df) |->
        [df[i] EXCEPT !.is_overlap = (df[i].weitere_nutzung_id = OverlapId)]]

MarkOverlapRows(df) ==
    [i \in 1..Len(df) |->
        IF df[i].weitere_nutzung_id = OverlapId
        THEN [df[i] EXCEPT !.sfl = df[i].geom_area \div AreaUnit,
                           !.is_overlap = TRUE]
        ELSE [df[i] EXCEPT !.is_overlap = FALSE]]

MarkOverlap ==
    /\ pc = "merged"
    /\ df_main' = MarkOverlapRows(df_main)
    /\ df_before' = MarkOverlapRows(df_main)
    /\ groups' = GroupKeys(df_main)
    /\ pc' = "reconcile"
    /\ UNCHANGED << inputs, df_mini_not_merged, errors, df_mini, df_mini_merge, mini_pos, merged_oids,
                    warnings, gdb_sfl, gdb_deleted >>
    /\ UNCHANGED raised

(***************************************************************************)
(* DeltaReconciler of the land-use pipeline:                               *)
(* _apply_delta_correction_nutzung                                         *)
(* variant: ascending value *)
ArgsortDesc_asc(df, G) ==
    LET Before(a, b) == df[a].sfl < df[b].sfl \/ (df[a].sfl = df[b].sfl /\ a < b)
        rank(p) == Cardinality({ q \in G : Before(q, p) }) + 1
    IN [r \in 1..Cardinality(G) |-> CHOOSE p \in G : rank(p) = r]

(***************************************************************************)
(* values.argsort()[::-1] over the rows at positions G: descending value,  *)
(* equal values in reverse row order                                       *)
ArgsortDesc(df, G) ==
    LET Before(a, b) == df[a].sfl > df[b].sfl \/ (df[a].sfl = df[b].sfl /\ a > b)
        rank(p) == Cardinality({ q \in G : Before(q, p) }) + 1
    IN [r \in 1..Cardinality(G) |-> CHOOSE p \in G : rank(p) = r]

SflOf(df) == [i \in 1..Len(df) |-> df[i].sfl]

(* variant: the overlap rows are summed as well *)
GroupSum_all(df, fsk) == SumSet(FskMainIdx(df, fsk), SflOf(df))

(* fsk_data_main["sfl"].sum() *)
GroupSum(df, fsk) ==
    SumSet({ i \in FskMainIdx(df, fsk) : ~df[i].is_overlap }, SflOf(df))

GroupAfl(df, fsk) == df[MinOf(FskMainIdx(df, fsk))].amtliche_flaeche

(* variant: every row of the group is eligible *)
EligibleIndices_all(df, fsk) == ArgsortDesc(df, FskMainIdx(df, fsk))

(* eligible_indices, lines 357-367 *)
EligibleIndices(df, fsk) ==
    LET G == FskMainIdx(df, fsk)
        sorted == ArgsortDesc(df, G)
        ok == { r \in 1..Len(sorted) :
                  /\ ~df[sorted[r]].is_overlap
                  /\ df[sorted[r]].sfl >= max_shred_qm }
    IN SelectRows(sorted, ok)

(* variant: the largest row gets its truncated proportional share, too *)
SharesNutzung_allfloor(df, elig, abs_delta) ==
    LET total == SumSeq([r \in 1..Len(elig) |-> df[elig[r]].sfl])
    IN [i \in Range(elig) |-> (abs_delta * df[i].sfl) \div total]

(* shares, lines 379-393: position -> share of abs_delta *)
SharesNutzung(df, elig, abs_delta) ==
    LET total == SumSeq([r \in 1..Len(elig) |-> df[elig[r]].sfl])
        others == { elig[r] : r \in 2..Len(elig) }
        share == [i \in others |-> (abs_delta * df[i].sfl) \div total]
        sum_other == SumSet(others, share)
    IN [i \in Range(elig) |->
           IF i = elig[1] THEN abs_delta - sum_other ELSE share[i]]

(* one iteration of the loop over the groups, lines 328-404 *)
DeltaCorrectionNutzung(df, fsk) ==
    LET afl == GroupAfl(df, fsk)
        sfl_sum == GroupSum(df, fsk)
        delta == afl - sfl_sum
        abs_delta == Abs(delta)
        elig == EligibleIndices(df, fsk)
        total == SumSeq([r \in 1..Len(elig) |-> df[elig[r]].sfl])
        shares == SharesNutzung(df, elig, abs_delta)
        sign == IF delta >= 0 THEN 1 ELSE 0 - 1
    IN IF sfl_sum = afl THEN df
       ELSE IF abs_delta >= max_shred_qm THEN df
       ELSE IF elig = << >> THEN df
       ELSE IF total <= 0 THEN df
       ELSE [i \in 1..Len(df) |->
               IF i \in Range(elig)
               THEN [df[i] EXCEPT !.sfl = df[i].sfl + sign * shares[i]]
               ELSE df[i]]

ReconcileGroup ==
    /\ pc = "reconcile"
    /\ groups # << >>
    /\ df_main' = DeltaCorrectionNutzung(df_main, Head(groups))
    /\ groups' = Tail(groups)
    /\ UNCHANGED << inputs, df_mini_not_merged, errors, df_before, pc, df_mini, df_mini_merge, mini_pos, merged_oids,
                    warnings, gdb_sfl, gdb_deleted >>
    /\ UNCHANGED raised

(***************************************************************************)
(* _write_sfl_to_gdb_nutzung                                               *)
(***************************************************************************)
(* variant: the write-back does not wait for the last parcel group *)
Write_early ==
    /\ pc = "reconcile"
    /\ gdb_sfl' = df_main
    /\ gdb_deleted' = Oids(df_mini)
    /\ pc' = "done"
    /\ UNCHANGED << inputs, df_mini_not_merged, errors, df_before, df_main, df_mini, df_mini_merge, mini_pos,
                    merged_oids, groups, warnings >>
    /\ UNCHANGED raised

(* lines 188-192: after the loop over the groups has ended *)
Write ==
    /\ pc = "reconcile"
    /\ groups = << >>
    /\ gdb_sfl' = df_main
    /\ gdb_deleted' = Oids(df_mini)
    /\ pc' = "done"
    /\ UNCHANGED << inputs, df_mini_not_merged, errors, df_before, df_main, df_mini, df_mini_merge, mini_pos,
                    merged_oids, groups, warnings >>
    /\ UNCHANGED raised

(***************************************************************************)
(* Soil pipeline: vectorized_calculate_sfl_boden                           *)
(***************************************************************************)
(* positional arguments load_nutzung_to_dataframe takes (self) and the     *)
(* number the soil pipeline gives it (self, self.nutzung_dissolve)         *)
LoadNutzungTakes == 1
LoadNutzungGiven == 2

(* positional parameters without default of merge_mini_geometries, and the *)
(* number of arguments the soil pipeline passes to it                      *)
MiniGeoRequired == 6
BodenCallArgs == 5

(* The try block, lines 230-338: the parcels are loaded, then the call of  *)
(* line 234 gives load_nutzung_to_dataframe an argument it does not take;  *)
(* the TypeError is caught at lines 336-338, reported, and the run returns *)
(* False before a table is joined or scaled.  The call of lines 299-301    *)
(* binds five arguments to six required parameters in the same way.        *)
BodenLoad ==
    /\ pc = "b_start"
    /\ \/ LoadNutzungGiven # LoadNutzungTakes
       \/ BodenCallArgs < MiniGeoRequired
    /\ errors' = errors \cup {"vectorized_calculate_sfl_boden"}
    /\ pc' = "error"
    /\ UNCHANGED << inputs, df_main, df_mini_not_merged, df_before, df_mini,
                    df_mini_merge, mini_pos, merged_oids, groups, warnings,
                    gdb_sfl, gdb_deleted >>
    /\ UNCHANGED raised

(***************************************************************************)
(* Shared mini-fragment step: merge_mini_geometries and process_merging    *)
(***************************************************************************)
(* merge_mini_geometries, lines 39-130.  The call raises and returns False *)
(* - at line 127, df_delete unbound, when no mini fragment is left after   *)
(*   the delete-outright step,                                             *)
(* - at line 77 when the table has no column geom_length,                  *)
(* - at line 112 when there is a merge candidate: the module               *)
(*   sfl.init_dataframes has no attribute add_geometries_from_fc;          *)
(* otherwise it returns df_main, df_mini_to_delete and an empty table.     *)
MiniGeoClassify ==
    /\ pc = "m_start"
    /\ LET df == df_main
           rest == MiniIdx(df) \ DeleteIdx(df)
           fails == \/ rest = {}
                    \/ \E i \in rest : df[i].geom_length = None
                    \/ Len(MergeCandidates(df)) > 0
       IN IF fails
          THEN /\ errors' = errors \cup {"merge_mini_geometries"}
               /\ pc' = "m_failed"
               /\ UNCHANGED << df_main, df_mini >>
          ELSE /\ df_main' = MainAndKept(df)
               /\ df_mini' = SelectRows(df, DeleteIdx(df))
               /\ pc' = "m_done"
               /\ UNCHANGED errors
    /\ UNCHANGED << inputs, df_mini_merge, df_mini_not_merged, mini_pos,
                    merged_oids, df_before, groups, warnings, gdb_sfl,
                    gdb_deleted >>
    /\ UNCHANGED raised

(* variant: the merge leaves emz as it was *)
MergeIntoShared_stale(df, b, mini) ==
    LET union_geom == GeomUnion(df[b].geometry, mini.geometry)
        union_area == GeomArea(union_geom)
    IN [df EXCEPT ![b].geometry = union_geom,
                  ![b].geom_area = union_area,
                  ![b].sfl = ScaledSfl(union_area, df[b].verbesserung)]

(* "Merge durchfuehren" of process_merging, lines 184-205 *)
MergeIntoShared(df, b, mini) ==
    LET union_geom == GeomUnion(df[b].geometry, mini.geometry)
        union_area == GeomArea(union_geom)
        new_sfl == ScaledSfl(union_area, df[b].verbesserung)
    IN [df EXCEPT ![b].geometry = union_geom,
                  ![b].geom_area = union_area,
                  ![b].sfl = new_sfl,
                  ![b].emz = IF calc_type = "bodenschaetzung"
                             THEN Emz(new_sfl, df[b].ackerzahl) ELSE @]

(* best_match_idx of process_merging, lines 164-181; 0 = None *)
BestMatchShared(df, mini, F) ==
    Strategy1(df, Attempted(FskMainIdx(df, mini.fsk), "touches", F), mini.geometry)

(* one iteration of the loop of process_merging, lines 155-208 *)
ProcessMergingStep ==
    /\ pc = "m_merging"
    /\ mini_pos < Len(df_mini_merge)
    /\ \E F \in SharedFailKinds :
          LET mini == df_mini_merge[mini_pos + 1]
              b == BestMatchShared(df_main, mini, F)
          IN /\ raised' = F
             /\ IF b = 0
                THEN UNCHANGED << df_main, merged_oids, warnings >>
                ELSE IF "union" \in F
                THEN /\ warnings' = warnings \cup
                          {[kind |-> "merge_failed", objectid |-> mini.objectid]}
                     /\ UNCHANGED << df_main, merged_oids >>
                ELSE /\ df_main' = MergeIntoShared(df_main, b, mini)
                     /\ merged_oids' = merged_oids \cup {mini.objectid}
                     /\ UNCHANGED warnings
    /\ mini_pos' = mini_pos + 1
    /\ UNCHANGED << inputs, df_mini_not_merged, errors, df_before, pc, df_mini,
                    df_mini_merge, groups, gdb_sfl, gdb_deleted >>

(* end of process_merging, lines 210-225: the tables returned *)
ProcessMergingReturn ==
    /\ pc = "m_merging"
    /\ mini_pos = Len(df_mini_merge)
    /\ LET n == Len(df_mini_merge)
           in_merged == { i \in 1..n : df_mini_merge[i].objectid \in merged_oids }
           merged == SelectRows(df_mini_merge, in_merged)
           not_merged == SelectRows(df_mini_merge, (1..n) \ in_merged)
       IN /\ df_mini' = merged
          /\ df_mini_not_merged' = not_merged
          /\ warnings' = IF Len(not_merged) > 0
                         THEN warnings \cup
                                {[kind |-> "not_merged_count", count |-> Len(not_merged)]}
                         ELSE warnings
    /\ pc' = "m_done"
    /\ UNCHANGED << inputs, errors, df_before, df_main, df_mini_merge, mini_pos,
                    merged_oids, groups, gdb_sfl, gdb_deleted >>
    /\ raised' = {}

(***************************************************************************)
(* DeltaReconciler of the soil pipeline: _apply_delta_correction_boden     *)
(***************************************************************************)
(* math.ceil(num / den) for num >= 0, den > 0 *)
CeilDiv(num, den) == (num + den - 1) \div den

(* variant: the ratio is not capped at 1.0 *)
IntAnteil_nocap(abs_delta, sfl, schaetz_afl) ==
    CeilDiv(abs_delta * sfl, schaetz_afl)

(* int_anteil, lines 387-388 *)
IntAnteil(abs_delta, sfl, schaetz_afl) ==
    IF sfl > schaetz_afl THEN abs_delta ELSE CeilDiv(abs_delta * sfl, schaetz_afl)

(* the loop over sorted_indices from its k-th element, lines 380-398 *)
RECURSIVE BodenLoop(_, _, _, _, _, _)
BodenLoop(df, sorted, k, rest_anteil, delta, schaetz_afl) ==
    IF k > Len(sorted) THEN [df |-> df, rest_anteil |-> rest_anteil]
    ELSE LET idx == sorted[k]
             sfl == df[idx].sfl
             int_anteil == IntAnteil(Abs(delta), sfl, schaetz_afl)
             new_sfl == IF delta < 0 THEN sfl - int_anteil ELSE sfl + int_anteil
         IN IF sfl < max_shred_qm
            THEN BodenLoop(df, sorted, k + 1, rest_anteil - sfl, delta, schaetz_afl)
            ELSE IF rest_anteil > 0
            THEN BodenLoop([df EXCEPT ![idx].sfl = new_sfl,
                                      ![idx].emz = Emz(new_sfl, df[idx].ackerzahl)],
                           sorted, k + 1, rest_anteil - int_anteil, delta, schaetz_afl)
            ELSE BodenLoop(df, sorted, k + 1, rest_anteil, delta, schaetz_afl)

(* variant: a delta equal to the threshold is corrected as well *)
DeltaCorrectionBodenRun_le(df, fsk) ==
    LET G == FskMainIdx(df, fsk)
        schaetz_afl == df[MinOf(G)].schaetz_afl
        sfl_sum == SumSet(G, SflOf(df))
        delta == schaetz_afl - sfl_sum
    IN IF sfl_sum = schaetz_afl THEN [df |-> df, rest_anteil |-> 0]
       ELSE IF Abs(delta) <= max_shred_qm
       THEN BodenLoop(df, ArgsortDesc(df, G), 1, Abs(delta), delta, schaetz_afl)
       ELSE [df |-> df, rest_anteil |-> Abs(delta)]

(* one iteration of the loop over the groups, lines 351-400 *)
DeltaCorrectionBodenRun(df, fsk) ==
    LET G == FskMainIdx(df, fsk)
        schaetz_afl == df[MinOf(G)].schaetz_afl
        sfl_sum == SumSet(G, SflOf(df))
        delta == schaetz_afl - sfl_sum
    IN IF sfl_sum = schaetz_afl THEN [df |-> df, rest_anteil |-> 0]
       ELSE IF Abs(delta) < max_shred_qm
       THEN BodenLoop(df, ArgsortDesc(df, G), 1, Abs(delta), delta, schaetz_afl)
       ELSE [df |-> df, rest_anteil |-> Abs(delta)]

DeltaCorrectionBoden(df, fsk) == DeltaCorrectionBodenRun(df, fsk).df

ReconcileGroupBoden ==
    /\ pc = "d_reconcile"
    /\ groups # << >>
    /\ df_main' = DeltaCorrectionBoden(df_main, Head(groups))
    /\ groups' = Tail(groups)
    /\ UNCHANGED << inputs, df_mini_not_merged, errors, df_before, pc, df_mini,
                    df_mini_merge, mini_pos, merged_oids, warnings, gdb_sfl,
                    gdb_deleted >>
    /\ UNCHANGED raised

(* return df, line 406 *)
DeltaBodenReturn ==
    /\ pc = "d_reconcile"
    /\ groups = << >>
    /\ pc' = "d_done"
    /\ UNCHANGED << inputs, df_mini_not_merged, errors, df_before, df_main,
                    df_mini, df_mini_merge, mini_pos, merged_oids, groups,
                    warnings, gdb_sfl, gdb_deleted >>
    /\ UNCHANGED raised

Next ==
    \/ Scale
    \/ Classify
    \/ MergeStep
    \/ MergeReturn
    \/ MarkOverlap
    \/ ReconcileGroup
    \/ Write
    \/ BodenLoad
    \/ MiniGeoClassify
    \/ ProcessMergingStep
    \/ ProcessMergingReturn
    \/ ReconcileGroupBoden
    \/ DeltaBodenReturn

Spec == Init /\ [][Next]_vars
(***************************************************************************)
(* Properties                                                              *)
(***************************************************************************)
RowsOf(df, fsk) == { i \in 1..Len(df) : df[i].fsk = fsk }

Keys(df) == { df[i].fsk : i \in 1..Len(df) }

(* sum of sfl over the rows of a parcel that are not overlap rows *)
ReconcilableSum(df, fsk) ==
    SumSet({ i \in RowsOf(df, fsk) : ~df[i].is_overlap }, [i \in 1..Len(df) |-> df[i].sfl])

OfficialArea(df, fsk) == df[CHOOSE i \in RowsOf(df, fsk) : TRUE].amtliche_flaeche

HasEligible(df, fsk) ==
    \E i \in RowsOf(df, fsk) : ~df[i].is_overlap /\ df[i].sfl >= max_shred_qm

SmallDelta(df, fsk) ==
    LET d == OfficialArea(df, fsk) - ReconcilableSum(df, fsk)
    IN 0 < Abs(d) /\ Abs(d) < max_shred_qm

ReconcilerDone == pc \in {"done"}

(* C1: land-use reconciler: a parcel group whose delta satisfies           *)
(* 0 < |delta| < T_correction and which has a non-overlap fragment with    *)
(* sfl >= T_shred sums exactly to the official area after the reconciler.  *)
C1_ExactSumNutzung ==
    (run = "nutzung" /\ ReconcilerDone) =>
        \A f \in Keys(df_before) :
            (SmallDelta(df_before, f) /\ HasEligible(df_before, f))
                => ReconcilableSum(df_main, f) = OfficialArea(df_before, f)

(* a finished run in which a group with two eligible fragments was corrected *)
C1_Witness ==
    /\ run = "nutzung" /\ ReconcilerDone
    /\ \E f \in Keys(df_before) :
          /\ SmallDelta(df_before, f)
          /\ \E i, j \in RowsOf(df_before, f) :
                /\ i # j
                /\ ~df_before[i].is_overlap /\ df_before[i].sfl >= max_shred_qm
                /\ ~df_before[j].is_overlap /\ df_before[j].sfl >= max_shred_qm
          /\ ReconcilableSum(df_main, f) = OfficialArea(df_before, f)

(* C6: right after the scaling step every fragment has                     *)
(* sfl = floor(geom_area * k + 0.5) with k = official area / geometry area *)
(* of its parcel in the parcel layer, an exact half rounded up.            *)
C6_ScaledHalfUp ==
    pc = "scaled" =>
        \A i \in 1..Len(df_main) :
            LET r == df_main[i]
                k == fc_flst[r.fsk]
                x2 == 2 * fc_rows[r.objectid].geom_area * k.afl + k.area
            IN /\ 2 * k.area * r.sfl <= x2
               /\ x2 < 2 * k.area * (r.sfl + 1)

(* sum of sfl over all rows of a parcel, and the target area of its group *)
BodenSum(df, fsk) == SumSet(RowsOf(df, fsk), [i \in 1..Len(df) |-> df[i].sfl])

BodenTarget(df, fsk) == df[CHOOSE i \in RowsOf(df, fsk) : TRUE].schaetz_afl

(* C2: soil reconciler: a parcel group with 0 < |target - sum(sfl)| <      *)
(* T_correction and a fragment with sfl >= T_shred sums exactly to the     *)
(* target after the reconciler.                                            *)
C2_ExactSumBoden ==
    (run = "delta_boden" /\ pc = "d_done") =>
        \A f \in Keys(df_before) :
            LET d == BodenTarget(df_before, f) - BodenSum(df_before, f)
            IN (/\ 0 < Abs(d)
                /\ Abs(d) < max_shred_qm
                /\ \E i \in RowsOf(df_before, f) : df_before[i].sfl >= max_shred_qm)
                   => BodenSum(df_main, f) = BodenTarget(df_before, f)

(* the group's sum differs from its target at the end of a run *)
Unbalanced(df, fsk) ==
    IF run = "nutzung"
    THEN ReconcilableSum(df, fsk) # OfficialArea(df, fsk)
    ELSE BodenSum(df, fsk) # BodenTarget(df, fsk)

(* C3: a run that ends with a parcel group whose reconcilable sum differs  *)
(* from its official area has recorded an uncorrected_delta anomaly that   *)
(* names the parcel.                                                       *)
C3_AnomalyRecorded ==
    pc \in {"done", "d_done"} =>
        \A f \in Keys(df_main) :
            Unbalanced(df_main, f) =>
                \E w \in warnings : w.kind = "uncorrected_delta" /\ w.fsk = f

(* objectids of the input rows whose scaled area is at most T_shred *)
InputMinis ==
    { i \in Slots :
        ScaledSfl(fc_rows[i].geom_area, fc_flst[fc_rows[i].fsk]) <= max_shred_qm }

(* C4: at the end of a run every mini fragment of the input is either in   *)
(* the final fragment set or in the deletion set, never in both and never  *)
(* in neither.                                                             *)
C4_OneTerminalState ==
    (run = "nutzung" /\ pc = "done") =>
        \A i \in InputMinis : (i \in Oids(gdb_sfl)) # (i \in gdb_deleted)

(* C5: a merge candidate for which the merge found no target is not in the *)
(* final fragment set, is in the deletion set, and a warning identifying   *)
(* it has been emitted.                                                    *)
C5_UnmergeableReported ==
    ((run = "nutzung" /\ shapely /\ pc = "done") \/ pc = "m_done") =>
        \A j \in 1..Len(df_mini_merge) :
            LET m == df_mini_merge[j]
            IN m.objectid \notin merged_oids =>
                  /\ m.objectid \notin Oids(df_main)
                  /\ m.objectid \in Oids(df_mini)
                  /\ \E w \in warnings :
                        w.kind = "not_merged" /\ w.objectid = m.objectid

(* C7: emz is sfl / 100 * ackerzahl rounded to the nearest integer, exact  *)
(* halves away from zero, at scaling, after a merge and after the delta    *)
(* correction.                                                             *)
C7_EmzHalfAway ==
    (calc_type = "bodenschaetzung"
        /\ pc \in {"m_merging", "m_done", "d_done"}) =>
        \A i \in 1..Len(df_main) :
            LET r == df_main[i]
                x2 == 2 * r.sfl * r.ackerzahl + 100
            IN 200 * r.emz <= x2 /\ x2 < 200 * (r.emz + 1)

(* the group already sums to its target *)
Balanced(df, fsk) == ~Unbalanced(df, fsk)

(* C8: the reconciler applied to a parcel group whose reconcilable sum     *)
(* equals the target changes no row (no sfl, no emz); in particular a      *)
(* second run over the output of a run that balanced the group is a no-op. *)
C8_BalancedNoOp ==
    /\ (run = "nutzung" /\ pc \in {"reconcile", "done"}) =>
          \A f \in Keys(df_main) :
              Balanced(df_main, f) => DeltaCorrectionNutzung(df_main, f) = df_main
    /\ (run = "delta_boden" /\ pc \in {"d_reconcile", "d_done"}) =>
          \A f \in Keys(df_main) :
              Balanced(df_main, f) => DeltaCorrectionBoden(df_main, f) = df_main

(* the end of a run whose reconciler changed a group and balanced it *)
C8_Witness ==
    /\ pc \in {"done", "d_done"}
    /\ \E f \in Keys(df_main) :
          /\ Balanced(df_main, f)
          /\ \E i \in RowsOf(df_main, f) : df_main[i].sfl # df_before[i].sfl

(* C9: a main fragment that absorbed mini fragments has the area of the    *)
(* union as geom_area and sfl = floor(geom_area * k + 0.5) of that area    *)
(* with the factor k of its parcel, also after several merges.             *)
C9_MergeRecomputes ==
    pc \in {"merging", "merged", "m_merging", "m_done"} =>
        \A i \in 1..Len(df_main) :
            LET r == df_main[i]
                k == fc_flst[r.fsk]
                x2 == 2 * r.geom_area * k.afl + k.area
            IN Cardinality(r.geometry) > 1 =>
                  /\ r.geom_area = SumSet(r.geometry, [s \in Slots |-> fc_rows[s].geom_area])
                  /\ 2 * k.area * r.sfl <= x2
                  /\ x2 < 2 * k.area * (r.sfl + 1)

(* the rows of one parcel, in table order *)
Restrict(df, fsk) == SelectRows(df, RowsOf(df, fsk))

(* C10: a merge step changes only rows of the parcel of the absorbed mini  *)
(* fragment and a reconciler step only rows of the group it handles; the   *)
(* rows of a parcel after the step are the step applied to the rows of     *)
(* that parcel alone, whatever the rows of the other parcels are.          *)
C10_Confined ==
    [][ /\ (pc = "merging" /\ mini_pos' = mini_pos + 1) =>
              LET m == df_mini_merge[mini_pos + 1]
                  d == Restrict(df_main, m.fsk)
                  b == BestMatchNutzung(d, m, raised')
              IN /\ \A i \in 1..Len(df_main) :
                        df_main'[i] # df_main[i] => df_main[i].fsk = m.fsk
                 /\ Restrict(df_main', m.fsk)
                        = IF b = 0 \/ "union" \in raised' THEN d
                          ELSE MergeInto(d, b, m)
        /\ (pc = "m_merging" /\ mini_pos' = mini_pos + 1) =>
              LET m == df_mini_merge[mini_pos + 1]
                  d == Restrict(df_main, m.fsk)
                  b == BestMatchShared(d, m, raised')
              IN /\ \A i \in 1..Len(df_main) :
                        df_main'[i] # df_main[i] => df_main[i].fsk = m.fsk
                 /\ Restrict(df_main', m.fsk)
                        = IF b = 0 \/ "union" \in raised' THEN d
                          ELSE MergeIntoShared(d, b, m)
        /\ (pc = "reconcile" /\ groups # << >> /\ groups' = Tail(groups)) =>
              LET f == Head(groups)
              IN /\ \A i \in 1..Len(df_main) :
                        df_main'[i] # df_main[i] => df_main[i].fsk = f
                 /\ Restrict(df_main', f)
                        = DeltaCorrectionNutzung(Restrict(df_main, f), f)
        /\ (pc = "d_reconcile" /\ groups # << >> /\ groups' = Tail(groups)) =>
              LET f == Head(groups)
              IN /\ \A i \in 1..Len(df_main) :
                        df_main'[i] # df_main[i] => df_main[i].fsk = f
                 /\ Restrict(df_main', f)
                        = DeltaCorrectionBoden(Restrict(df_main, f), f)
      ]_vars

(* a mini fragment was merged into a row of its parcel while an untouched  *)
(* row of another parcel touches it                                        *)
C10_Witness ==
    /\ pc \in {"merging", "m_merging"}
    /\ \E j \in 1..mini_pos, i \in 1..Len(df_main) :
          LET m == df_mini_merge[j]
              r == df_main[i]
          IN /\ m.objectid \in merged_oids
             /\ r.fsk # m.fsk
             /\ r.geometry = {r.objectid}
             /\ TouchesOrIntersects(r.geometry, m.geometry)

(* the scaled area of input row i, and the rules of the classifier stated  *)
(* on the input rows                                                       *)
ScaledOf(i) == ScaledSfl(fc_rows[i].geom_area, fc_flst[fc_rows[i].fsk])

KeepRule(i) ==
    \/ /\ ScaledOf(i) >= merge_area
       /\ FormIndexBelow(fc_rows[i].geom_length, fc_rows[i].geom_area,
                         flaechenformindex)
    \/ fc_flst[fc_rows[i].fsk].afl <= max_shred_qm

DeleteRule(i) ==
    /\ delete_area # None
    /\ fc_rows[i].geom_area < delete_area
    /\ ScaledOf(i) <= merge_area
    /\ fc_flst[fc_rows[i].fsk].afl > merge_area

(* the classification of a run is complete *)
Classified ==
    \/ run = "nutzung" /\ pc = "merged"
    \/ run = "merge_mini" /\ pc = "m_done"

(* C11: a fragment with sfl > T_shred is main; a mini fragment is kept     *)
(* standalone if and only if (sfl >= T_merge and form_index < T_form) or   *)
(* the official area of its parcel is <= T_shred; every other mini         *)
(* fragment that is not deleted outright is a merge candidate.             *)
C11_KeepRule ==
    Classified =>
        \A i \in Slots :
            /\ ScaledOf(i) > max_shred_qm => i \in Oids(df_main)
            /\ ScaledOf(i) <= max_shred_qm =>
                  /\ (i \in Oids(df_main)) <=> KeepRule(i)
                  /\ (~KeepRule(i) /\ ~DeleteRule(i)) => i \in Oids(df_mini_merge)

(* merge_mini_geometries has returned its three tables / the error result *)
ReturnsTuple == run = "merge_mini" /\ pc = "m_done"

ReturnsFalse == run = "merge_mini" /\ pc = "m_failed"

(* C12: with a delete floor exactly the mini fragments with geom_area <    *)
(* T_delete, sfl <= T_merge and official area > T_merge are discarded      *)
(* without a merge attempt and are in the returned deletion set; without a *)
(* delete floor no fragment is deleted outright.                           *)
C12_DeleteOutright ==
    (ReturnsTuple \/ ReturnsFalse) =>
        \A i \in Slots :
            ScaledOf(i) <= max_shred_qm =>
                (DeleteRule(i) <=>
                    /\ ReturnsTuple
                    /\ i \in Oids(df_mini)
                    /\ i \notin Oids(df_mini_merge)
                    /\ \A j \in 1..Len(df_main) : i \notin df_main[j].geometry)

(* C13: merge_mini_geometries returns for every input table the 3-tuple    *)
(* (df_main, df_mini, df_mini_not_merged): main and kept fragments, merged *)
(* and deleted-outright fragments, unmerged merge candidates; also when    *)
(* the input has no mini fragment or all of them are deleted outright.     *)
C13_ReturnsTuple ==
    /\ ~ReturnsFalse
    /\ ReturnsTuple =>
          /\ Oids(df_main) = { i \in Slots : ScaledOf(i) > max_shred_qm
                                  \/ (KeepRule(i) /\ ~DeleteRule(i)) }
          /\ Oids(df_mini) = { i \in Slots : ScaledOf(i) <= max_shred_qm
                                  /\ (DeleteRule(i) \/ i \in merged_oids) }
          /\ Oids(df_mini_not_merged) = Oids(df_mini_merge) \ merged_oids

(* C14: a parcel with a geometry area of zero is not fatal: the run does   *)
(* not abort, its fragments are scaled with the factor 1.0 and the other   *)
(* parcels are processed as usual.                                         *)
C14_BadParcelNonFatal ==
    (run = "nutzung" /\ \E f \in FSKs : ~Loaded(f)) =>
        /\ errors = {}
        /\ pc # "error"
        /\ pc = "scaled" =>
              \A i \in 1..Len(df_main) :
                  ~Loaded(df_main[i].fsk) =>
                      df_main[i].sfl = RoundHalfUp(df_main[i].geom_area, AreaUnit)

(* delta of a group: target area minus the sum the reconciler compares *)
GroupDelta(df, fsk) ==
    IF run = "nutzung"
    THEN OfficialArea(df, fsk) - ReconcilableSum(df, fsk)
    ELSE BodenTarget(df, fsk) - BodenSum(df, fsk)

(* C15: a group with |delta| >= T_correction, the boundary included, has   *)
(* every row (sfl and emz) unchanged by the reconciler.                    *)
C15_LargeDeltaUnchanged ==
    pc \in {"done", "d_done"} =>
        \A f \in Keys(df_before) :
            Abs(GroupDelta(df_before, f)) >= max_shred_qm =>
                \A i \in RowsOf(df_before, f) : df_main[i] = df_before[i]

(* the end of a soil reconciliation with a group whose |delta| equals the  *)
(* threshold and which holds a fragment of at least the shred threshold    *)
C15_Witness ==
    /\ pc = "d_done"
    /\ \E f \in Keys(df_before) :
          /\ Abs(GroupDelta(df_before, f)) = max_shred_qm
          /\ \E i \in RowsOf(df_before, f) : df_before[i].sfl >= max_shred_qm

(* C16: a small delta is distributed over the eligible fragments: each but *)
(* the largest changes by floor(|delta| * sfl / total), the largest by     *)
(* |delta| minus the other shares, all with the sign of delta.             *)
C16_ShareDistribution ==
    pc \in {"done", "d_done"} =>
        \A f \in Keys(df_before) :
            LET d == GroupDelta(df_before, f)
                E == { i \in RowsOf(df_before, f) :
                         ~df_before[i].is_overlap /\ df_before[i].sfl >= max_shred_qm }
                total == SumSet(E, SflOf(df_before))
                share == [j \in E |-> (Abs(d) * df_before[j].sfl) \div total]
                sign == IF d >= 0 THEN 1 ELSE 0 - 1
                diff(j) == df_main[j].sfl - df_before[j].sfl
            IN (0 < Abs(d) /\ Abs(d) < max_shred_qm /\ E # {}) =>
                  \E l \in E :
                      /\ \A j \in E : df_before[l].sfl >= df_before[j].sfl
                      /\ \A j \in E \ {l} : diff(j) = sign * share[j]
                      /\ diff(l) = sign * (Abs(d) - SumSet(E \ {l}, share))

(* C17: if several eligible fragments share the maximum sfl, the one that  *)
(* comes first in the input order is treated as the largest and receives   *)
(* the remainder.                                                          *)
C17_TieFirstInOrder ==
    (run = "nutzung" /\ pc = "done") =>
        \A f \in Keys(df_before) :
            LET d == GroupDelta(df_before, f)
                E == { i \in RowsOf(df_before, f) :
                         ~df_before[i].is_overlap /\ df_before[i].sfl >= max_shred_qm }
                top == { i \in E : \A j \in E : df_before[i].sfl >= df_before[j].sfl }
                first == MinOf(top)
                total == SumSet(E, SflOf(df_before))
                share == [j \in E |-> (Abs(d) * df_before[j].sfl) \div total]
                sign == IF d >= 0 THEN 1 ELSE 0 - 1
            IN (0 < Abs(d) /\ Abs(d) < max_shred_qm /\ Cardinality(top) >= 2) =>
                  df_main[first].sfl - df_before[first].sfl
                      = sign * (Abs(d) - SumSet(E \ {first}, share))

(* C18: ceil-based correction: for every group with |delta| below the      *)
(* threshold, after the loop the corrected sfl sum equals the target area  *)
(* or the remaining share is <= 0.                                         *)
C18_CeilSumOrRest ==
    (run = "delta_boden" /\ pc = "d_done") =>
        \A f \in Keys(df_before) :
            Abs(GroupDelta(df_before, f)) < max_shred_qm =>
                \/ BodenSum(df_main, f) = BodenTarget(df_before, f)
                \/ DeltaCorrectionBodenRun(df_before, f).rest_anteil <= 0

(* the calls whose raising leaves a parcel with a single main row without  *)
(* any attempted pairing, by pipeline                                      *)
EveryAttemptRaises(F) ==
    IF pc = "merging"
    THEN {"touches", "distance"} \subseteq F
         /\ ("intersects" \in F \/ "buffer" \in F)
    ELSE "touches" \in F

(* C19: a geometry call that raises never aborts the merge step. Every     *)
(* iteration of the merge loop moves on to the next mini fragment without  *)
(* an error; when touches raises for one pairing, a remaining main row     *)
(* that touches the fragment still takes it, and in the land-use pipeline  *)
(* the distance strategy is still consulted; when every attempt raises or  *)
(* union raises, the fragment is not merged, the table stays as it is, and *)
(* the fragment ends among the not-merged fragments of the result.         *)
C19_GeometryFailureContained ==
    /\ [][ (pc \in {"merging", "m_merging"} /\ mini_pos < Len(df_mini_merge)) =>
            LET m == df_mini_merge[mini_pos + 1]
                idx == FskMainIdx(df_main, m.fsk)
                rest == IF idx = {} THEN {} ELSE idx \ {MinOf(idx)}
                F == raised'
                merged == m.objectid \in merged_oids'
            IN /\ pc' = pc
               /\ mini_pos' = mini_pos + 1
               /\ errors' = errors
               /\ "union" \in F => ~merged /\ df_main' = df_main
               /\ (/\ "touches" \in F
                   /\ "union" \notin F
                   /\ \E i \in rest :
                         TouchesOrIntersects(df_main[i].geometry, m.geometry))
                     => merged
               /\ (/\ pc = "merging"
                   /\ "touches" \in F
                   /\ "distance" \notin F
                   /\ \E i \in idx :
                         GeomDistance(df_main[i].geometry, m.geometry) < tolerance)
                     => merged
               /\ (rest = {} /\ EveryAttemptRaises(F))
                     => ~merged /\ df_main' = df_main
          ]_vars
    /\ []((pc \in {"merged", "m_done"} /\ mini_pos = Len(df_mini_merge)) =>
            \A j \in 1..Len(df_mini_merge) :
                LET m == df_mini_merge[j]
                IN m.objectid \notin merged_oids =>
                     IF pc = "merged"
                     THEN \E w \in warnings :
                             w.kind = "not_merged" /\ w.objectid = m.objectid
                     ELSE m.objectid \in Oids(df_mini_not_merged))

(* touches raised for the pairing with the first main row of the parcel    *)
(* and the fragment was merged all the same, in an iteration that is not   *)
(* the last of the loop                                                    *)
C19_Witness ==
    /\ pc \in {"merging", "m_merging"}
    /\ "touches" \in raised
    /\ 0 < mini_pos /\ mini_pos < Len(df_mini_merge)
    /\ df_mini_merge[mini_pos].objectid \in merged_oids

(* C20: the merge target of a mini fragment m is the first found of (1) a  *)
(* main row of the parcel that touches or intersects m, (2) the main row   *)
(* of minimum distance below the tolerance, (3) the largest main row that  *)
(* intersects m buffered by the tolerance; in the land-use pipeline and in *)
(* the shared merge alike, an iteration in which no call raises merges m   *)
(* into that row, and leaves the table alone when there is none. A         *)
(* fragment within the tolerance of a main row of its parcel is merged.    *)
C20_ThreeStrategies ==
    [][ (/\ pc \in {"merging", "m_merging"}
         /\ mini_pos' = mini_pos + 1
         /\ raised' = {}) =>
          LET m == df_mini_merge[mini_pos + 1]
              idx == FskMainIdx(df_main, m.fsk)
              s1 == Strategy1(df_main, idx, m.geometry)
              s2 == Strategy2(df_main, idx, m.geometry)
              hit == { i \in idx :
                         GeomDistance(df_main[i].geometry, m.geometry) <= tolerance }
              best == { i \in hit : \A j \in hit :
                          GeomArea(df_main[i].geometry) >= GeomArea(df_main[j].geometry) }
              s3 == IF hit = {} THEN 0 ELSE MinOf(best)
              t == IF s1 # 0 THEN s1 ELSE IF s2 # 0 THEN s2 ELSE s3
          IN IF t = 0
             THEN m.objectid \notin merged_oids' /\ df_main' = df_main
             ELSE /\ m.objectid \in merged_oids'
                  /\ df_main'[t].geometry
                        = GeomUnion(df_main[t].geometry, m.geometry)
      ]_vars

(* C21: in the soil tables emz is consistent with sfl after every step:    *)
(* after each merge and after the delta correction every row has           *)
(* emz = round(sfl / 100 * ackerzahl) for its current sfl, the value       *)
(* compare_bodenschaetzung_sfl recomputes, which is an integer nearest to  *)
(* sfl * ackerzahl / 100; a yield number of 0 gives emz 0.                 *)
C21_EmzConsistent ==
    calc_type = "bodenschaetzung" =>
        \A i \in 1..Len(df_main) :
            LET r == df_main[i]
                d == 100 * r.emz - r.sfl * r.ackerzahl
            IN /\ r.emz = Emz(r.sfl, r.ackerzahl)
               /\ 0 - 50 <= d /\ d <= 50
               /\ r.ackerzahl = 0 => r.emz = 0

(* the delta correction changed the sfl of a row whose new emz is an exact *)
(* half before rounding, and its emz changed with it                       *)
C21_Witness ==
    /\ run = "delta_boden" /\ pc = "d_done"
    /\ \E i \in 1..Len(df_main) :
          /\ df_main[i].sfl # df_before[i].sfl
          /\ df_main[i].emz # df_before[i].emz
          /\ (df_main[i].sfl * df_main[i].ackerzahl) % 100 = 50

(* C22: the delta reconciler changes only rows that are not overlap rows   *)
(* and have sfl >= T_shred: every overlap row and every row with           *)
(* sfl < T_shred is the same before and after; the overlap rows are not    *)
(* counted in the group sum: a group whose other rows sum to the target is *)
(* left alone, and what the land-use reconciler adds to a group is nothing *)
(* or the target minus the sum of the rows that are not overlap rows.      *)
C22_ReconcilerFrame ==
    pc \in {"done", "d_done"} =>
        /\ \A i \in 1..Len(df_before) :
              (df_before[i].is_overlap \/ df_before[i].sfl < max_shred_qm)
                  => df_main[i] = df_before[i]
        /\ \A f \in Keys(df_before) :
              LET added == SumSet(RowsOf(df_before, f),
                                  [i \in 1..Len(df_before) |->
                                      df_main[i].sfl - df_before[i].sfl])
              IN /\ GroupDelta(df_before, f) = 0 =>
                      \A i \in RowsOf(df_before, f) : df_main[i] = df_before[i]
                 /\ run = "nutzung" =>
                      added \in {0, OfficialArea(df_before, f)
                                      - ReconcilableSum(df_before, f)}

(* a reconciled land-use group with an overlap row of at least T_shred, a  *)
(* row below T_shred and a row the reconciler changed                      *)
C22_Witness ==
    /\ run = "nutzung" /\ pc = "done"
    /\ \E f \in Keys(df_before) :
          \E i, j, k \in RowsOf(df_before, f) :
              /\ df_before[i].is_overlap /\ df_before[i].sfl >= max_shred_qm
              /\ ~df_before[j].is_overlap /\ df_before[j].sfl < max_shred_qm
              /\ df_main[k].sfl # df_before[k].sfl

(* C23: first touch wins, with sequential absorption. The merge candidates *)
(* are taken one at a time in table order; when no call raises, the next   *)
(* one is merged into the first row of its parcel, in the order of the     *)
(* main table, whose current geometry touches or intersects it, and into   *)
(* no row when the shared merge finds none; all other rows stay as they    *)
(* are. At the end of the shared merge no merged fragment is a row of the  *)
(* main table, and each lies in the geometry of exactly one main row.      *)
C23_FirstTouchSequential ==
    /\ [][ (/\ pc \in {"merging", "m_merging"}
            /\ mini_pos' = mini_pos + 1
            /\ "touches" \notin raised'
            /\ "union" \notin raised') =>
             LET m == df_mini_merge[mini_pos + 1]
                 touching == { i \in 1..Len(df_main) :
                                 /\ df_main[i].fsk = m.fsk
                                 /\ TouchesOrIntersects(df_main[i].geometry,
                                                        m.geometry) }
             IN /\ df_mini_merge' = df_mini_merge
                /\ Len(df_main') = Len(df_main)
                /\ IF touching = {}
                   THEN pc = "m_merging" =>
                          df_main' = df_main /\ merged_oids' = merged_oids
                   ELSE LET t == MinOf(touching)
                        IN /\ merged_oids' = merged_oids \cup {m.objectid}
                           /\ df_main'[t].geometry
                                 = df_main[t].geometry \cup m.geometry
                           /\ \A i \in 1..Len(df_main) :
                                 i # t => df_main'[i] = df_main[i]
          ]_vars
    /\ [](pc = "m_done" =>
            \A o \in merged_oids :
                /\ o \notin Oids(df_main)
                /\ o \in Oids(df_mini)
                /\ Cardinality({ i \in 1..Len(df_main) :
                                   o \in df_main[i].geometry }) = 1)

(* a main row of the shared merge has absorbed a fragment that does not    *)
(* touch its own polygon, only a fragment it absorbed before               *)
C23_Witness ==
    /\ pc \in {"m_merging", "m_done"}
    /\ \E i \in 1..Len(df_main) :
          \E o \in merged_oids :
              /\ o \in df_main[i].geometry
              /\ ~TouchesOrIntersects({df_main[i].objectid}, {o})

(* position of a step in the sequence of a pipeline run *)
StepRank(p) ==
    CASE p \in {"start", "b_start"} -> 0
      [] p = "scaled" -> 1
      [] p = "merging" -> 2
      [] p = "merged" -> 3
      [] p = "reconcile" -> 4
      [] p = "done" -> 5
      [] OTHER -> 6

(* C24: the steps of a pipeline run happen in one order. The run never     *)
(* goes back to an earlier step; the table is filled by the scaling step,  *)
(* the merge candidates are chosen right after it, fragments are merged    *)
(* only in the merge step, overlap rows are marked only after it, a parcel *)
(* group is reconciled only after the marking, and the write-back happens  *)
(* when no group is left; once reconciliation has started no geometry,     *)
(* geom_area or merge record changes and no row is added or removed.       *)
C24_StepOrder ==
    [][ (run \in {"nutzung", "boden"}) =>
          /\ StepRank(pc') >= StepRank(pc)
          /\ (df_main = << >> /\ df_main' # << >>) => pc \in {"start", "b_start"}
          /\ df_mini_merge' # df_mini_merge => pc = "scaled"
          /\ (\/ merged_oids' # merged_oids
              \/ mini_pos' > mini_pos
              \/ \E i \in 1..Len(df_main), j \in 1..Len(df_main') :
                    /\ df_main'[j].objectid = df_main[i].objectid
                    /\ df_main'[j].geometry # df_main[i].geometry)
                => pc = "merging"
          /\ (\E i \in 1..Len(df_main), j \in 1..Len(df_main') :
                    /\ df_main'[j].objectid = df_main[i].objectid
                    /\ df_main'[j].is_overlap # df_main[i].is_overlap)
                => pc = "merged"
          /\ (groups # << >> /\ groups' = Tail(groups)) => pc = "reconcile"
          /\ (gdb_sfl' # gdb_sfl \/ gdb_deleted' # gdb_deleted)
                => pc = "reconcile" /\ groups = << >> /\ pc' = "done"
          /\ pc \in {"reconcile", "done"} =>
                /\ Len(df_main') = Len(df_main)
                /\ merged_oids' = merged_oids
                /\ df_mini' = df_mini
                /\ \A i \in 1..Len(df_main) :
                      /\ df_main'[i].geometry = df_main[i].geometry
                      /\ df_main'[i].geom_area = df_main[i].geom_area
                      /\ df_main'[i].sfl # df_main[i].sfl =>
                            groups # << >> /\ df_main[i].fsk = Head(groups)
      ]_vars

(* a finished land-use run in which a fragment was merged, a row was       *)
(* marked as overlap row and the reconciler changed a row                  *)
C24_Witness ==
    /\ run = "nutzung" /\ pc = "done"
    /\ merged_oids # {}
    /\ \E i \in 1..Len(df_main) : df_main[i].is_overlap
    /\ \E i \in 1..Len(df_main) : df_main[i].sfl # df_before[i].sfl
    /\ gdb_sfl = df_main

(* C25: the delta reconciler never produces a zero or negative sfl: every  *)
(* row it changes had sfl >= T_shred > |delta| and changes by at most      *)
(* |delta|, so it ends with sfl >= 1, in the land-use and the soil variant.*)
C25_SflStaysPositive ==
    pc \in {"done", "d_done"} =>
        \A i \in 1..Len(df_before) :
            LET d == Abs(GroupDelta(df_before, df_before[i].fsk))
            IN df_main[i].sfl # df_before[i].sfl =>
                  /\ df_before[i].sfl >= max_shred_qm
                  /\ max_shred_qm > d
                  /\ Abs(df_main[i].sfl - df_before[i].sfl) <= d
                  /\ df_main[i].sfl >= 1

(* the soil reconciler has lowered a row that was larger than the target   *)
(* area of its group                                                       *)
C25_Witness ==
    /\ pc = "d_done"
    /\ \E i \in 1..Len(df_before) :
          /\ df_main[i].sfl < df_before[i].sfl
          /\ df_before[i].sfl > BodenTarget(df_before, df_before[i].fsk)

(* C26: land-use distribution: the remainder given to the largest eligible *)
(* fragment is |delta| minus the other shares, lies between 0 and |delta|  *)
(* and is not below the share of any other eligible fragment.              *)
C26_RemainderBounds ==
    (run = "nutzung" /\ pc = "done") =>
        \A f \in Keys(df_before) :
            LET d == GroupDelta(df_before, f)
                E == { i \in RowsOf(df_before, f) :
                         ~df_before[i].is_overlap /\ df_before[i].sfl >= max_shred_qm }
                sign == IF d >= 0 THEN 1 ELSE 0 - 1
                got == [j \in E |-> sign * (df_main[j].sfl - df_before[j].sfl)]
            IN (0 < Abs(d) /\ Abs(d) < max_shred_qm /\ E # {}) =>
                  \E l \in E :
                      LET remainder == Abs(d) - SumSet(E \ {l}, got)
                      IN /\ \A j \in E : df_before[l].sfl >= df_before[j].sfl
                         /\ got[l] = remainder
                         /\ 0 <= remainder /\ remainder <= Abs(d)
                         /\ \A j \in E \ {l} : 0 <= got[j] /\ got[j] <= remainder

(* the end of a land-use run with a group of two eligible fragments of     *)
(* different size in which the smaller one received a share of at least 1  *)
(* and the larger one received more                                        *)
C26_Witness ==
    /\ run = "nutzung" /\ pc = "done"
    /\ \E l, j \in 1..Len(df_before) :
          /\ df_before[l].fsk = df_before[j].fsk
          /\ ~df_before[l].is_overlap /\ ~df_before[j].is_overlap
          /\ df_before[j].sfl >= max_shred_qm
          /\ df_before[l].sfl > df_before[j].sfl
          /\ Abs(df_main[j].sfl - df_before[j].sfl) >= 1
          /\ Abs(df_main[l].sfl - df_before[l].sfl)
                > Abs(df_main[j].sfl - df_before[j].sfl)

(* C27: reconciliation never moves a parcel group further from its target: *)
(* for every group the distance |target - sum(sfl)| after the reconciler   *)
(* is at most the distance before it, in the land-use and the soil variant.*)
C27_NoFurtherFromTarget ==
    pc \in {"done", "d_done"} =>
        \A f \in Keys(df_before) :
            Abs(GroupDelta(df_main, f)) <= Abs(GroupDelta(df_before, f))

(* the end of a soil reconciliation in which the ceil shares of a group    *)
(* overshot the target: the sum was below the target and is above it now   *)
C27_Witness ==
    /\ pc = "d_done"
    /\ \E f \in Keys(df_before) :
          /\ GroupDelta(df_before, f) > 0
          /\ GroupDelta(df_main, f) < 0

(* C28: a merge step is atomic with respect to failures. After the step    *)
(* for mini fragment m either m is recorded as merged and one main row of  *)
(* its parcel holds the union as geometry, the area of the union as        *)
(* geom_area, the scaled area as sfl (and, in the soil calculation, the    *)
(* emz of that sfl) while the other rows are unchanged, or m is not        *)
(* recorded as merged and no main row changed. In no state does a main row *)
(* contain the polygon of a fragment that is not recorded as merged.       *)
C28_MergeStepAtomic ==
    /\ [][ (pc \in {"merging", "m_merging"} /\ mini_pos' = mini_pos + 1) =>
             LET m == df_mini_merge[mini_pos + 1]
                 Reflects(b) ==
                     LET u == df_main[b].geometry \cup m.geometry
                         new_sfl == ScaledSfl(GeomArea(u), df_main[b].verbesserung)
                     IN /\ df_main'[b].geometry = u
                        /\ df_main'[b].geom_area = GeomArea(u)
                        /\ df_main'[b].sfl = new_sfl
                        /\ (pc = "m_merging" /\ calc_type = "bodenschaetzung") =>
                              df_main'[b].emz = Emz(new_sfl, df_main[b].ackerzahl)
             IN \/ /\ m.objectid \in merged_oids'
                   /\ Len(df_main') = Len(df_main)
                   /\ \E b \in 1..Len(df_main) :
                         /\ df_main[b].fsk = m.fsk
                         /\ Reflects(b)
                         /\ \A i \in 1..Len(df_main) :
                               i # b => df_main'[i] = df_main[i]
                \/ /\ m.objectid \notin merged_oids'
                   /\ merged_oids' = merged_oids
                   /\ df_main' = df_main
          ]_vars
    /\ [](\A i \in 1..Len(df_main) :
             \A o \in df_main[i].geometry :
                 o # df_main[i].objectid => o \in merged_oids)

(* a merge step in which the union raised: the fragment has a main row it  *)
(* touches, is reported as failed and is not recorded as merged            *)
C28_Witness ==
    /\ pc \in {"merging", "m_merging"}
    /\ mini_pos >= 1
    /\ "union" \in raised
    /\ LET m == df_mini_merge[mini_pos]
       IN /\ m.objectid \notin merged_oids
          /\ [kind |-> "merge_failed", objectid |-> m.objectid] \in warnings
          /\ \E i \in 1..Len(df_main) :
                /\ df_main[i].fsk = m.fsk
                /\ TouchesOrIntersects(df_main[i].geometry, m.geometry)

(* C29: the soil pipeline calls the shared mini-fragment step with its     *)
(* configured values bound to the matching parameters, so a run over valid *)
(* input (every parcel loaded) passes the step and does not end in the     *)
(* error outcome.                                                          *)
C29_BodenPassesMiniStep ==
    (run = "boden" /\ \A f \in FSKs : Loaded(f)) =>
        /\ pc # "error"
        /\ errors = {}

(* C30: in the land-use pipeline, from the overlap handling on, every row  *)
(* flagged as overlap (weitere_nutzung_id = 1000) has sfl equal to its     *)
(* current geom_area truncated to an integer, without the improvement      *)
(* factor and without half-up rounding, also when the row absorbed mini    *)
(* fragments; reconciliation does not alter it and it is the value written.*)
C30_OverlapTruncatedArea ==
    (run = "nutzung" /\ pc \in {"reconcile", "done"}) =>
        /\ \A i \in 1..Len(df_main) :
              df_main[i].weitere_nutzung_id = OverlapId =>
                  /\ df_main[i].is_overlap
                  /\ df_main[i].sfl = df_main[i].geom_area \div AreaUnit
        /\ pc = "done" =>
              \A i \in 1..Len(gdb_sfl) :
                  gdb_sfl[i].weitere_nutzung_id = OverlapId =>
                      gdb_sfl[i].sfl = gdb_sfl[i].geom_area \div AreaUnit

(* the end of a land-use run whose overlap row absorbed a mini fragment     *)
(* and has a truncated area different from the scaled, half-up rounded     *)
(* value the merge had given it; the row is written with the truncated one *)
C30_Witness ==
    /\ run = "nutzung" /\ pc = "done"
    /\ \E i \in 1..Len(df_main) :
          /\ df_main[i].weitere_nutzung_id = OverlapId
          /\ Cardinality(df_main[i].geometry) > 1
          /\ df_main[i].geom_area \div AreaUnit
                # ScaledSfl(df_main[i].geom_area, df_main[i].verbesserung)
          /\ gdb_sfl[i] = df_main[i]
====
